---- MODULE Spec2Model ----
(***************************************************************************)
(* Model of contexts/AuthContext.tsx: the AuthProvider session context.    *)
(*                                                                         *)
(* Strings are sequences of one-character strings, so that includes,       *)
(* endsWith and toUpperCase are computed and not assumed.  A JavaScript    *)
(* object is a function from its keys to values; a key that is missing     *)
(* reads as Undefined.                                                     *)
(***************************************************************************)
EXTENDS Integers, Sequences, FiniteSets, Bags, TLC

\* ------------------------------------------------------------------ bounds
\* number of login/register/adminLogin calls that may be in flight at once
MaxCalls == 2
\* number of user records the data service holds at most
MaxUsers == 2

\* ----------------------------------------------------------------- strings
LowerCase == <<"a","b","c","d","e","f","g","h","i","j","k","l","m",
               "n","o","p","q","r","s","t","u","v","w","x","y","z">>
UpperCase == <<"A","B","C","D","E","F","G","H","I","J","K","L","M",
               "N","O","P","Q","R","S","T","U","V","W","X","Y","Z">>

\* String.prototype.toUpperCase on one character
toUpperCaseChar(c) ==
    IF \E i \in 1..Len(LowerCase) : LowerCase[i] = c
    THEN UpperCase[CHOOSE i \in 1..Len(LowerCase) : LowerCase[i] = c]
    ELSE c

\* String.prototype.toUpperCase
toUpperCase(s) == [i \in 1..Len(s) |-> toUpperCaseChar(s[i])]

\* String.prototype.includes, for a one-character needle
includes(s, c) == \E i \in 1..Len(s) : s[i] = c

\* String.prototype.endsWith
endsWith(s, suffix) ==
    /\ Len(s) >= Len(suffix)
    /\ SubSeq(s, Len(s) - Len(suffix) + 1, Len(s)) = suffix

\* the value of a missing property; no string of the model equals it
Undefined == <<"undefined">>

\* JavaScript truthiness of a string-or-undefined value
Truthy(v) == v # Undefined /\ v # <<>>

\* a || b
Or(a, b) == IF Truthy(a) THEN a ELSE b

\* property read obj.k
Get(obj, k) == IF k \in DOMAIN obj THEN obj[k] ELSE Undefined

\* null, for the session slots and for a lookup without a match
Null == [isNull |-> TRUE]

\* '@raghuenggcollege.in'
CollegeDomain == <<"@","r","a","g","h","u","e","n","g","g","c","o","l","l","e","g","e",".","i","n">>

DefaultUserId == <<"u","s","e","r","-","1">>
StatusActive == <<"a","c","t","i","v","e">>
StatusPending == <<"p","e","n","d","i","n","g">>

\* ---------------------------------------------------------- result values
Success == [success |-> TRUE]
Failure(msg) == [success |-> FALSE, error |-> msg]

InvalidDomain == "Please use your college email ID (@raghuenggcollege.in)"
NotFound == "No account found with this email or roll number"
LoginFailed == "An error occurred during login. Please try again."
DuplicateEmail == "An account with this email already exists"
DuplicateRollNumber == "An account with this roll number already exists"
CreateFailed == "Failed to create account. Please try again."
RegisterFailed == "An error occurred during registration. Please try again."
InvalidCredentials == "Invalid credentials"
AuthFailed == "Authentication failed. Please try again."

\* ------------------------------------------------------- persistent store
\* localStorage.getItem returns null for a key that is not stored
Absent == [kind |-> "absent"]
\* a stored non-empty string that JSON.parse rejects
Malformed == [kind |-> "malformed"]

\* JSON.stringify of a flat object: properties whose value is undefined are
\* left out of the text
stringify(obj) ==
    [kind |-> "json",
     val |-> [k \in {j \in DOMAIN obj : obj[j] # Undefined} |-> obj[k]]]

\* JSON.parse throws on text that is not JSON
parseThrows(text) == text.kind # "json"

\* JSON.parse of JSON text
parse(text) == text.val

\* ------------------------------------------------------------ data service
\* MockDataService is not part of the sources; it is modelled from its
\* contract: a list of user records with exact-match lookups, a list of
\* registration records and a list of admin accounts.

\* new Date().toISOString(): some timestamp; its value is not modelled
Timestamp == <<"t">>

EmailA == <<"a">> \o CollegeDomain
EmailB == <<"b">> \o CollegeDomain
EmailC == <<"c">> \o CollegeDomain
\* an email outside the college domain
EmailX == <<"a","@","x",".","i","n">>

\* the account the data service starts with
SeedUser ==
    [id |-> <<"u","1">>, email |-> EmailA, full_name |-> <<"A">>,
     roll_number |-> <<"R","1">>, branch |-> <<"C","S">>, year |-> <<"1">>,
     phone_number |-> <<"9">>, status |-> StatusActive, last_login |-> Undefined]

\* the userData arguments register is called with: a fresh account whose roll
\* number has a lower-case letter and whose name is empty, an account whose
\* email and roll number both collide with SeedUser, a fresh account outside
\* the college domain, and an account whose roll number alone collides
NewUsers ==
    { [email |-> EmailB, full_name |-> <<>>, roll_number |-> <<"r","2">>,
       branch |-> <<"C","S">>, year |-> <<"2">>, phone_number |-> <<"8">>,
       status |-> StatusPending],
      [email |-> EmailA, full_name |-> <<"A">>, roll_number |-> <<"R","1">>,
       branch |-> <<"C","S">>, year |-> <<"1">>, phone_number |-> <<"9">>,
       status |-> StatusActive],
      [email |-> EmailX, full_name |-> <<"X">>, roll_number |-> <<"R","3">>,
       branch |-> <<"E","E">>, year |-> <<"3">>, phone_number |-> <<"7">>,
       status |-> StatusActive],
      [email |-> EmailC, full_name |-> <<"C">>, roll_number |-> <<"R","1">>,
       branch |-> <<"C","S">>, year |-> <<"1">>, phone_number |-> <<"6">>,
       status |-> StatusActive] }

\* the identifiers login is called with
Identifiers ==
    { EmailA, EmailB, EmailX, <<"R","1">>, <<"r","1">>, <<"r","2">> }

Passwords == { <<"p">>, <<"q">> }

AdminAccount ==
    [id |-> <<"a","1">>, username |-> <<"r","o","o","t">>,
     email |-> <<"r">> \o CollegeDomain, role |-> <<"a","d","m","i","n">>]
AdminPassword == <<"p">>
Usernames == { <<"r","o","o","t">>, <<"g","u","e","s","t">> }

Digits == <<"1","2","3","4","5","6","7","8","9">>

\* ------------------------------------------------------------------- state
VARIABLES
    user,           \* useState<AuthUser | null>
    admin,          \* useState<AdminUser | null>
    isLoading,      \* useState(false)
    isInitialized,  \* useState(false)
    localStorage,   \* the stored text under the keys 'user' and 'admin'
    users,          \* the data service's user records
    registrations,  \* the data service's registration records
    calls,          \* the bag of login/register/adminLogin calls in flight
    last            \* the operation that finished last, with what it returned;
                    \* a logout notes whether it came right after a successful
                    \* login and whether a login call was in flight, a mount
                    \* and an initialize whether they follow such a logout

vars == <<user, admin, isLoading, isInitialized, localStorage, users,
          registrations, calls, last>>

\* the calls in flight, each a record of its operation, its arguments, the
\* await it is suspended at and the data-service requests it has made
InFlight == BagToSet(calls)
NoCallInFlight == InFlight = {}

\* the calls in flight with one more, with one less, and with one moved on
Started(call) == calls (+) SetToBag({call})
Ended(call) == calls (-) SetToBag({call})
Resumed(call, next) == (calls (-) SetToBag({call})) (+) SetToBag({next})

\* getUserByEmail: { data } of the record with that email, or no data
getUserByEmail(email) ==
    IF \E u \in users : u.email = email
    THEN CHOOSE u \in users : u.email = email
    ELSE Null

\* getUserByRollNumber: { data } of the record with that roll number, or no data
getUserByRollNumber(rollNumber) ==
    IF \E u \in users : u.roll_number = rollNumber
    THEN CHOOSE u \in users : u.roll_number = rollNumber
    ELSE Null

\* updateUser(id, fields): the record with that id, with the fields replaced
updateUser(id, lastLogin) ==
    { IF u.id = id THEN [u EXCEPT !.last_login = lastLogin] ELSE u : u \in users }

\* createUser(userData): the record as given, with a new id
createUser(userData) ==
    [id |-> <<"u", Digits[Cardinality(users) + 1]>>,
     email |-> userData.email, full_name |-> userData.full_name,
     roll_number |-> userData.roll_number, branch |-> userData.branch,
     year |-> userData.year, phone_number |-> userData.phone_number,
     status |-> userData.status, last_login |-> Undefined]

\* authenticateAdmin(username, password): { data } of the matching account
authenticateAdmin(username, password) ==
    IF username = AdminAccount.username /\ password = AdminPassword
    THEN AdminAccount
    ELSE Null

\* --------------------------------------------------------- session records
\* authUser with the roll number normalised to upper case
authUserUpperRoll(userData) ==
    [id |-> userData.id, email |-> userData.email,
     full_name |-> userData.full_name,
     roll_number |-> toUpperCase(userData.roll_number),
     branch |-> userData.branch, year |-> userData.year,
     phone_number |-> userData.phone_number, status |-> userData.status]

\* the AuthUser that login builds from the fetched record
authUser(userData) ==
    [id |-> userData.id, email |-> userData.email,
     full_name |-> userData.full_name, roll_number |-> userData.roll_number,
     branch |-> userData.branch, year |-> userData.year,
     phone_number |-> userData.phone_number, status |-> userData.status]

\* the object login stores under 'user'
userMirror(userData) ==
    [id |-> userData.id, name |-> userData.full_name,
     rollNumber |-> userData.roll_number, email |-> userData.email,
     branch |-> userData.branch, year |-> userData.year,
     phone |-> userData.phone_number, status |-> userData.status]

\* the AuthUser that initializeAuth builds from the parsed 'user' record
restoreUser(userData) ==
    [id |-> Or(Get(userData, "id"), DefaultUserId),
     email |-> Get(userData, "email"),
     full_name |-> Or(Get(userData, "name"), Get(userData, "full_name")),
     roll_number |-> Or(Get(userData, "rollNumber"), Get(userData, "roll_number")),
     branch |-> Get(userData, "branch"),
     year |-> Get(userData, "year"),
     phone_number |-> Or(Get(userData, "phone"), Get(userData, "phone_number")),
     status |-> Or(Get(userData, "status"), StatusActive)]

\* a 'user' record as an earlier build stored it: the AuthUser's own field
\* names, and no id
LegacyUserRecord ==
    [email |-> EmailA, full_name |-> <<"A">>, roll_number |-> <<"R","1">>,
     branch |-> <<"C","S">>, year |-> <<"1">>, phone_number |-> <<"9">>]

\* what the store may hold under each key when the page is opened
StoredUsers == { Absent, Malformed, stringify(userMirror(SeedUser)), stringify(LegacyUserRecord) }
StoredAdmins == { Absent, Malformed, stringify(AdminAccount) }

\* ---------------------------------------------------------------- actions
Init ==
    /\ user = Null
    /\ admin = Null
    /\ isLoading = FALSE
    /\ isInitialized = FALSE
    /\ localStorage \in [user : StoredUsers, admin : StoredAdmins]
    /\ users = {SeedUser}
    /\ registrations = {}
    /\ calls = EmptyBag
    /\ last = [op |-> "mount", afterLogout |-> FALSE]

\* initializeAuth with setIsInitialized(true) at the end of the try block
\* instead of in the finally block
initializeAuthInTry ==
    LET storedUser == localStorage.user
        storedAdmin == localStorage.admin
        userThrows == storedUser # Absent /\ parseThrows(storedUser)
        adminThrows == storedAdmin # Absent /\ parseThrows(storedAdmin)
    IN  /\ ~isInitialized
        /\ user' = IF storedUser # Absent /\ ~userThrows
                   THEN restoreUser(parse(storedUser))
                   ELSE user
        /\ admin' = IF storedAdmin # Absent /\ ~userThrows /\ ~adminThrows
                    THEN parse(storedAdmin)
                    ELSE admin
        /\ localStorage' = IF userThrows \/ adminThrows
                           THEN [user |-> Absent, admin |-> Absent]
                           ELSE localStorage
        /\ isInitialized' = ~(userThrows \/ adminThrows)
        /\ last' = [op |-> "initialize",
                    afterLogout |-> (last.op = "mount" /\ last.afterLogout)]
        /\ UNCHANGED <<isLoading, users, registrations, calls>>

\* initializeAuth, the mount effect: restores the sessions from the store
initializeAuth ==
    LET storedUser == localStorage.user
        storedAdmin == localStorage.admin
        userThrows == storedUser # Absent /\ parseThrows(storedUser)
        adminThrows == storedAdmin # Absent /\ parseThrows(storedAdmin)
    IN  /\ ~isInitialized
        /\ user' = IF storedUser # Absent /\ ~userThrows
                   THEN restoreUser(parse(storedUser))
                   ELSE user
        /\ admin' = IF storedAdmin # Absent /\ ~userThrows /\ ~adminThrows
                    THEN parse(storedAdmin)
                    ELSE admin
        /\ localStorage' = IF userThrows \/ adminThrows
                           THEN [user |-> Absent, admin |-> Absent]
                           ELSE localStorage
        /\ isInitialized' = TRUE
        /\ last' = [op |-> "initialize",
                    afterLogout |-> (last.op = "mount" /\ last.afterLogout)]
        /\ UNCHANGED <<isLoading, users, registrations, calls>>

\* a new process start on the same store: the provider is mounted again with
\* its initial state, and the calls of the old page are gone
mount ==
    /\ isInitialized
    /\ user' = Null
    /\ admin' = Null
    /\ isLoading' = FALSE
    /\ isInitialized' = FALSE
    /\ calls' = EmptyBag
    /\ last' = [op |-> "mount", afterLogout |-> (last.op = "logout" /\ last.afterLogin)]
    /\ UNCHANGED <<localStorage, users, registrations>>

\* logout without localStorage.removeItem('user')
logoutKeepsRecord ==
    /\ isInitialized
    /\ user' = Null
    /\ last' = [op |-> "logout",
                afterLogin |-> (last.op = "login" /\ last.result = Success),
                duringLogin |-> (\E call \in InFlight : call.op = "login")]
    /\ UNCHANGED <<admin, isLoading, isInitialized, localStorage, users, registrations, calls>>

logout ==
    /\ isInitialized
    /\ user' = Null
    /\ localStorage' = [localStorage EXCEPT !.user = Absent]
    /\ last' = [op |-> "logout",
                afterLogin |-> (last.op = "login" /\ last.result = Success),
                duringLogin |-> (\E call \in InFlight : call.op = "login")]
    /\ UNCHANGED <<admin, isLoading, isInitialized, users, registrations, calls>>

\* adminLogout clearing the user session as well
adminLogoutClearsAll ==
    /\ isInitialized
    /\ admin' = Null
    /\ user' = Null
    /\ localStorage' = [user |-> Absent, admin |-> Absent]
    /\ last' = [op |-> "adminLogout"]
    /\ UNCHANGED <<isLoading, isInitialized, users, registrations, calls>>

adminLogout ==
    /\ isInitialized
    /\ admin' = Null
    /\ localStorage' = [localStorage EXCEPT !.admin = Absent]
    /\ last' = [op |-> "adminLogout"]
    /\ UNCHANGED <<user, isLoading, isInitialized, users, registrations, calls>>

\* ------------------------------------------------------- asynchronous calls
\* Return with setIsLoading(false) on the success path only, not in finally
ReturnWithoutFinally(call, result) ==
    /\ calls' = Ended(call)
    /\ isLoading' = IF result = Success THEN FALSE ELSE isLoading
    /\ last' = [op |-> call.op, result |-> result]

\* the call returns: its finally block clears isLoading
Return(call, result) ==
    /\ calls' = Ended(call)
    /\ isLoading' = FALSE
    /\ last' = [op |-> call.op, result |-> result]

\* loginQuery with the roll number passed on as it was typed
loginQueryAsTyped(emailOrRoll) ==
    IF includes(emailOrRoll, "@")
    THEN [fn |-> "getUserByEmail", arg |-> emailOrRoll]
    ELSE [fn |-> "getUserByRollNumber", arg |-> emailOrRoll]

\* login's choice of lookup: by email, or by the upper-cased roll number
loginQuery(emailOrRoll) ==
    IF includes(emailOrRoll, "@")
    THEN [fn |-> "getUserByEmail", arg |-> emailOrRoll]
    ELSE [fn |-> "getUserByRollNumber", arg |-> toUpperCase(emailOrRoll)]

\* the data service's answer to a lookup
Answer(query) ==
    IF query.fn = "getUserByEmail"
    THEN getUserByEmail(query.arg)
    ELSE getUserByRollNumber(query.arg)

\* invalidDomain with only the end of the domain compared
invalidDomainSuffixOnly(emailOrRoll) ==
    includes(emailOrRoll, "@") /\ ~endsWith(emailOrRoll, <<".","i","n">>)

\* login's domain check
invalidDomain(emailOrRoll) ==
    includes(emailOrRoll, "@") /\ ~endsWith(emailOrRoll, CollegeDomain)

\* the login call as it is suspended at its first await
loginCall(emailOrRoll, password) ==
    [op |-> "login", pc |-> "getUser",
     args |-> [emailOrRoll |-> emailOrRoll, password |-> password],
     queries |-> <<loginQuery(emailOrRoll)>>]

\* login up to its first await: the domain check returns at once, with the
\* finally block run; otherwise the lookup is issued
loginBegin(limit, emailOrRoll, password) ==
    /\ isInitialized
    /\ BagCardinality(calls) < limit
    /\ IF invalidDomain(emailOrRoll)
       THEN /\ isLoading' = FALSE
            /\ last' = [op |-> "login", result |-> Failure(InvalidDomain)]
            /\ UNCHANGED calls
       ELSE /\ isLoading' = TRUE
            /\ calls' = Started(loginCall(emailOrRoll, password))
            /\ UNCHANGED last
    /\ UNCHANGED <<user, admin, isInitialized, localStorage, users, registrations>>

\* the login call as it is suspended at the last-login update
loginCallUpdating(call, userData) ==
    [op |-> "login", pc |-> "updateUser", args |-> call.args,
     queries |-> Append(call.queries, [fn |-> "updateUser", arg |-> userData.id]),
     userData |-> userData]

\* the lookup settles: a fault is caught, no data is NotFound, otherwise the
\* last-login update is issued
loginGetUserSettles(call, outcome) ==
    /\ call.op = "login"
    /\ call.pc = "getUser"
    /\ LET userResult == Answer(call.queries[1])
       IN  IF outcome = "throw"
           THEN Return(call, Failure(LoginFailed))
           ELSE IF userResult = Null
           THEN Return(call, Failure(NotFound))
           ELSE /\ calls' = Resumed(call, loginCallUpdating(call, userResult))
                /\ UNCHANGED <<isLoading, last>>
    /\ UNCHANGED <<user, admin, isInitialized, localStorage, users, registrations>>

\* the update settles: a fault is caught; otherwise the session is set and
\* then stored, and a fault of setItem is caught after setUser
loginUpdateUserSettles(call, outcome, setItem) ==
    /\ call.op = "login"
    /\ call.pc = "updateUser"
    /\ LET userData == call.userData
       IN  /\ users' = IF outcome = "ok" THEN updateUser(userData.id, Timestamp) ELSE users
           /\ IF outcome = "throw"
              THEN /\ Return(call, Failure(LoginFailed))
                   /\ UNCHANGED <<user, localStorage>>
              ELSE /\ user' = authUser(userData)
                   /\ IF setItem = "throw"
                      THEN /\ Return(call, Failure(LoginFailed))
                           /\ UNCHANGED localStorage
                      ELSE /\ Return(call, Success)
                           /\ localStorage' =
                                [localStorage EXCEPT !.user = stringify(userMirror(userData))]
    /\ UNCHANGED <<admin, isInitialized, registrations>>

\* the register call as it is suspended at an await, with one more request made
registerCall(userData, pc, queries, fn, arg) ==
    [op |-> "register", pc |-> pc, args |-> userData,
     queries |-> Append(queries, [fn |-> fn, arg |-> arg])]

\* register starting with the roll-number lookup
registerBeginByRoll(limit, userData) ==
    /\ isInitialized
    /\ BagCardinality(calls) < limit
    /\ isLoading' = TRUE
    /\ calls' = Started(registerCall(userData, "byRoll", <<>>,
                                     "getUserByRollNumber", userData.roll_number))
    /\ UNCHANGED <<user, admin, isInitialized, localStorage, users, registrations, last>>

\* register up to its first await
registerBegin(limit, userData) ==
    /\ isInitialized
    /\ BagCardinality(calls) < limit
    /\ isLoading' = TRUE
    /\ calls' = Started(registerCall(userData, "byEmail", <<>>,
                                     "getUserByEmail", userData.email))
    /\ UNCHANGED <<user, admin, isInitialized, localStorage, users, registrations, last>>

\* the email lookup settles
registerByEmailSettles(call, outcome) ==
    /\ call.op = "register"
    /\ call.pc = "byEmail"
    /\ IF outcome = "throw"
       THEN Return(call, Failure(RegisterFailed))
       ELSE IF getUserByEmail(call.args.email) # Null
       THEN Return(call, Failure(DuplicateEmail))
       ELSE /\ calls' = Resumed(call, registerCall(call.args, "byRoll", call.queries,
                                                   "getUserByRollNumber", call.args.roll_number))
            /\ UNCHANGED <<isLoading, last>>
    /\ UNCHANGED <<user, admin, isInitialized, localStorage, users, registrations>>

\* the roll-number lookup settles
registerByRollSettles(call, outcome) ==
    /\ call.op = "register"
    /\ call.pc = "byRoll"
    /\ IF outcome = "throw"
       THEN Return(call, Failure(RegisterFailed))
       ELSE IF getUserByRollNumber(call.args.roll_number) # Null
       THEN Return(call, Failure(DuplicateRollNumber))
       ELSE /\ calls' = Resumed(call, registerCall(call.args, "createUser", call.queries,
                                                   "createUser", call.args.email))
            /\ UNCHANGED <<isLoading, last>>
    /\ UNCHANGED <<user, admin, isInitialized, localStorage, users, registrations>>

\* createUser settles: an error result is CreateFailed, a fault is caught,
\* otherwise the registration record is requested
registerCreateUserSettles(call, outcome) ==
    /\ call.op = "register"
    /\ call.pc = "createUser"
    /\ outcome = "ok" => Cardinality(users) < MaxUsers
    /\ LET created == createUser(call.args)
       IN  CASE outcome = "throw" ->
                  /\ Return(call, Failure(RegisterFailed))
                  /\ UNCHANGED users
             [] outcome = "error" ->
                  /\ Return(call, Failure(CreateFailed))
                  /\ UNCHANGED users
             [] OTHER ->
                  /\ users' = users \cup {created}
                  /\ calls' = Resumed(call, registerCall(call.args, "createRegistration",
                                                         call.queries, "createRegistration",
                                                         created.id))
                  /\ UNCHANGED <<isLoading, last>>
    /\ UNCHANGED <<user, admin, isInitialized, localStorage, registrations>>

\* the id of the record the register call created, once it has
createdId(call) == call.queries[Len(call.queries)].arg

\* registerCreateRegistrationSettles with the new account logged in on success
registerCreateRegistrationSettlesLogsIn(call, outcome) ==
    /\ call.op = "register"
    /\ call.pc = "createRegistration"
    /\ registrations' =
          IF outcome = "ok"
          THEN registrations \cup
                 {[user_id |-> createdId(call), registration_date |-> Timestamp,
                   status |-> StatusActive, submission_status |-> <<"n","o","n","e">>]}
          ELSE registrations
    /\ IF outcome = "throw"
       THEN /\ Return(call, Failure(RegisterFailed))
            /\ UNCHANGED user
       ELSE /\ Return(call, Success)
            /\ user' = authUser(CHOOSE u \in users : u.id = createdId(call))
    /\ UNCHANGED <<admin, isInitialized, localStorage, users>>

\* createRegistration settles: its result is not looked at, a fault is caught
registerCreateRegistrationSettles(call, outcome) ==
    /\ call.op = "register"
    /\ call.pc = "createRegistration"
    /\ registrations' =
          IF outcome = "ok"
          THEN registrations \cup
                 {[user_id |-> createdId(call), registration_date |-> Timestamp,
                   status |-> StatusActive, submission_status |-> <<"n","o","n","e">>]}
          ELSE registrations
    /\ IF outcome = "throw"
       THEN Return(call, Failure(RegisterFailed))
       ELSE Return(call, Success)
    /\ UNCHANGED <<user, admin, isInitialized, localStorage, users>>

\* the adminLogin call as it is suspended at its await
adminLoginCall(username, password) ==
    [op |-> "adminLogin", pc |-> "authenticateAdmin",
     args |-> [username |-> username, password |-> password],
     queries |-> <<[fn |-> "authenticateAdmin", arg |-> username]>>]

\* adminLogin up to its await
adminLoginBegin(limit, username, password) ==
    /\ isInitialized
    /\ BagCardinality(calls) < limit
    /\ isLoading' = TRUE
    /\ calls' = Started(adminLoginCall(username, password))
    /\ UNCHANGED <<user, admin, isInitialized, localStorage, users, registrations, last>>

\* authenticateAdmin settles: a match sets and stores the admin session
adminLoginSettles(call, outcome, setItem) ==
    /\ call.op = "adminLogin"
    /\ call.pc = "authenticateAdmin"
    /\ LET result == authenticateAdmin(call.args.username, call.args.password)
       IN  CASE outcome = "throw" ->
                  /\ Return(call, Failure(AuthFailed))
                  /\ UNCHANGED <<admin, localStorage>>
             [] outcome # "throw" /\ result = Null ->
                  /\ Return(call, Failure(InvalidCredentials))
                  /\ UNCHANGED <<admin, localStorage>>
             [] OTHER ->
                  /\ admin' = result
                  /\ IF setItem = "throw"
                     THEN /\ Return(call, Failure(AuthFailed))
                          /\ UNCHANGED localStorage
                     ELSE /\ Return(call, Success)
                          /\ localStorage' = [localStorage EXCEPT !.admin = stringify(result)]
    /\ UNCHANGED <<user, isInitialized, users, registrations>>

Settled == {"ok", "throw"}
Written == {"ok", "error", "throw"}

\* limit: how many calls may be in flight at once
login(limit, identifiers, passwords) ==
    \/ \E emailOrRoll \in identifiers, password \in passwords :
          loginBegin(limit, emailOrRoll, password)
    \/ \E call \in InFlight, outcome \in Settled : loginGetUserSettles(call, outcome)
    \/ \E call \in InFlight, outcome \in Written, setItem \in Settled :
          loginUpdateUserSettles(call, outcome, setItem)

register(limit, newUsers) ==
    \/ \E userData \in newUsers : registerBegin(limit, userData)
    \/ \E call \in InFlight, outcome \in Settled : registerByEmailSettles(call, outcome)
    \/ \E call \in InFlight, outcome \in Settled : registerByRollSettles(call, outcome)
    \/ \E call \in InFlight, outcome \in Written : registerCreateUserSettles(call, outcome)
    \/ \E call \in InFlight, outcome \in Written :
          registerCreateRegistrationSettles(call, outcome)

adminLogin(limit, usernames, passwords) ==
    \/ \E username \in usernames, password \in passwords :
          adminLoginBegin(limit, username, password)
    \/ \E call \in InFlight, outcome \in Settled, setItem \in Settled :
          adminLoginSettles(call, outcome, setItem)

\* The calls made one at a time, as the UI's event loop makes them when no
\* handler starts a call while another is awaiting the data service; logout,
\* adminLogout and a new process start may still come while a call is awaiting.
Next ==
    \/ initializeAuth
    \/ mount
    \/ login(1, Identifiers, Passwords)
    \/ register(1, NewUsers)
    \/ logout
    \/ adminLogin(1, Usernames, Passwords)
    \/ adminLogout

Spec == Init /\ [][Next]_vars

\* Overlapping calls: a call may start while others are awaiting the data
\* service.  The inputs are fewer, to keep the interleavings countable.
OverlapIdentifiers == { EmailA, EmailX }
OverlapNewUsers == { u \in NewUsers : u.email = EmailB }
OverlapUsernames == { AdminAccount.username }
OverlapPasswords == { AdminPassword }

NextOverlap ==
    \/ initializeAuth
    \/ mount
    \/ login(MaxCalls, OverlapIdentifiers, OverlapPasswords)
    \/ register(MaxCalls, OverlapNewUsers)
    \/ logout
    \/ adminLogin(MaxCalls, OverlapUsernames, OverlapPasswords)
    \/ adminLogout

\* the page opened on an empty store
InitOverlap == Init /\ localStorage = [user |-> Absent, admin |-> Absent]

SpecOverlap == InitOverlap /\ [][NextOverlap]_vars

\* ------------------------------------------------------------------ claims
WellFormed(text) == text # Absent /\ ~parseThrows(text)

\* C1: whenever initialize has run and no call is in flight, the in-memory
\* user is present exactly when the 'user' record is stored, and both denote
\* the same user; likewise the in-memory admin and the 'admin' record.
C1_SessionInSync ==
    (isInitialized /\ NoCallInFlight) =>
        /\ (user # Null) <=> (localStorage.user # Absent)
        /\ user # Null =>
              /\ WellFormed(localStorage.user)
              /\ restoreUser(parse(localStorage.user)).id = user.id
        /\ (admin # Null) <=> (localStorage.admin # Absent)
        /\ admin # Null =>
              /\ WellFormed(localStorage.admin)
              /\ parse(localStorage.admin) = admin

\* C2: initialize on a store with at least one malformed record ends with
\* isInitialized true and neither session restored.
C2_MalformedRestoresNothing ==
    [][(~isInitialized /\ (localStorage.user = Malformed \/ localStorage.admin = Malformed))
          => (isInitialized' /\ user' = Null /\ admin' = Null)]_vars

\* C3: initialize handles each key on its own: a malformed record is deleted
\* and its session not restored, a well-formed record under the other key
\* stays in the store and its session is restored.
C3_KeysHandledSeparately ==
    [][~isInitialized =>
          /\ localStorage.user = Malformed =>
                (localStorage'.user = Absent /\ user' = Null)
          /\ WellFormed(localStorage.user) =>
                /\ localStorage'.user = localStorage.user
                /\ user' = restoreUser(parse(localStorage.user))
          /\ localStorage.admin = Malformed =>
                (localStorage'.admin = Absent /\ admin' = Null)
          /\ WellFormed(localStorage.admin) =>
                /\ localStorage'.admin = localStorage.admin
                /\ admin' = parse(localStorage.admin)]_vars

\* C4: isInitialized is false at start, every run of initialize sets it
\* whatever the store holds, and no step but a new process start clears it.
C4_InitializedOnce ==
    /\ ~isInitialized
    /\ [][/\ ~isInitialized => isInitialized'
          /\ (isInitialized /\ ~isInitialized') => last'.op = "mount"]_vars

\* an account was registered and admin logged out since initialize
C4_Witness ==
    /\ isInitialized
    /\ last.op = "adminLogout"
    /\ Cardinality(users) > 1

\* the identifiers that contain '@' and do not end with the college domain
OutsideDomain ==
    { e \in Identifiers : includes(e, "@") /\ ~endsWith(e, CollegeDomain) }

\* C5: a login whose identifier contains '@' and does not end with the
\* college domain fails with InvalidDomain at once, whether or not an account
\* with that email exists; nothing is looked up or updated, and neither the
\* sessions nor the store change.
C5_InvalidDomainRejected ==
    [][\A limit \in 1..MaxCalls, emailOrRoll \in OutsideDomain, password \in Passwords :
          loginBegin(limit, emailOrRoll, password)
          => /\ last' = [op |-> "login", result |-> Failure(InvalidDomain)]
             /\ UNCHANGED <<user, admin, localStorage, users, registrations, calls>>]_vars

\* a login was rejected with InvalidDomain while an account with an email
\* outside the college domain exists
C5_Witness ==
    /\ last.op = "login"
    /\ last.result = Failure(InvalidDomain)
    /\ \E u \in users : u.email = EmailX

\* two characters that are the same letter in either case
SameLetter(c, d) ==
    c = d \/ \E i \in 1..Len(LowerCase) : {c, d} = {LowerCase[i], UpperCase[i]}

\* two strings that differ at most in letter case
DifferOnlyInCase(a, b) ==
    Len(a) = Len(b) /\ \A i \in 1..Len(a) : SameLetter(a[i], b[i])

\* the call returns to its caller (the page is not closed under it)
Returns(call) ==
    call \in InFlight /\ calls' = Ended(call) /\ last'.op = call.op

\* the call goes on to its next await, as next
Resumes(call, next) ==
    /\ call \in InFlight
    /\ next \in BagToSet(calls') \ {call}
    /\ calls' = Resumed(call, next)

\* the login calls in flight whose identifier is a roll number
RollNumberLogins(inFlight) ==
    { call \in BagToSet(inFlight) :
        call.op = "login" /\ ~includes(call.args.emailOrRoll, "@") }

\* C6: a login by roll number issues getUserByRollNumber with the upper-cased
\* identifier, the query every identifier differing only in letter case
\* issues too; and what the call finds, returns and sets as session is
\* decided by that upper-cased form and the data service's state alone.
C6_RollNumberUpperCased ==
    [][/\ \A call \in RollNumberLogins(calls') :
             (call.pc = "getUser" /\ CopiesIn(call, calls') > CopiesIn(call, calls))
             => /\ Len(call.queries) = 1
                /\ call.queries[1].fn = "getUserByRollNumber"
                /\ \A other \in Identifiers :
                      DifferOnlyInCase(other, call.args.emailOrRoll)
                      => call.queries[1].arg = toUpperCase(other)
       /\ \A call \in RollNumberLogins(calls) :
             LET rollNumber == toUpperCase(call.args.emailOrRoll)
             IN  /\ (call.pc = "getUser" /\ loginGetUserSettles(call, "ok"))
                    => IF \E u \in users : u.roll_number = rollNumber
                       THEN \E next \in BagToSet(calls') :
                               /\ Resumes(call, next)
                               /\ next.pc = "updateUser"
                               /\ next.userData \in users
                               /\ next.userData.roll_number = rollNumber
                       ELSE /\ Returns(call)
                            /\ last'.result = Failure(NotFound)
                 /\ (Returns(call) /\ last'.result = Success)
                    => /\ user' = authUser(call.userData)
                       /\ user'.roll_number = rollNumber
                       /\ localStorage'.user = stringify(userMirror(call.userData))]_vars

\* a login typed in lower case found the account with the upper-case roll number
C6_Witness ==
    \E call \in InFlight :
        /\ call.op = "login"
        /\ call.args.emailOrRoll = <<"r","1">>
        /\ call.pc = "updateUser"
        /\ call.userData.roll_number = <<"R","1">>

\* the userData a record of the data service was created from
AsRegistered(u) ==
    [email |-> u.email, full_name |-> u.full_name, roll_number |-> u.roll_number,
     branch |-> u.branch, year |-> u.year, phone_number |-> u.phone_number,
     status |-> u.status]

\* email is a college email that a register call created an account for, and
\* register returned success (its registration record was written)
Registered(email) ==
    /\ endsWith(email, CollegeDomain)
    /\ \E u \in users :
          /\ u.email = email
          /\ AsRegistered(u) \in NewUsers
          /\ \E r \in registrations : r.user_id = u.id

\* the login calls in flight whose identifier is a registered college email
RegisteredLogins ==
    { call \in InFlight : call.op = "login" /\ Registered(call.args.emailOrRoll) }

\* C7 as claimed: every login with a registered college email returns
\* success, with a session whose fields are those given at registration.
C7_RegisteredLoginSucceeds ==
    [][\A call \in RegisteredLogins :
          Returns(call)
          => /\ last'.result = Success
             /\ user' # Null
             /\ AsRegistered(user' @@ [last_login |-> Undefined]) \in NewUsers
             /\ user'.email = call.args.emailOrRoll]_vars

\* C7 as amended: a login with a registered college email, whatever the
\* password, is never rejected with InvalidDomain or NotFound: when the
\* lookup answers it goes on to the update, when the update settles without
\* a fault and the store takes the write it returns success with a session
\* whose fields are those given at registration, and otherwise it returns
\* the generic LoginFailed.
C7_RegisteredLoginNeverRejected ==
    [][\A call \in RegisteredLogins :
          LET email == call.args.emailOrRoll
          IN  /\ (call.pc = "getUser" /\ loginGetUserSettles(call, "ok"))
                 => \E next \in BagToSet(calls') :
                       /\ Resumes(call, next)
                       /\ next.pc = "updateUser"
                       /\ next.userData.email = email
              /\ (/\ call.pc = "updateUser"
                  /\ \E outcome \in {"ok", "error"} : loginUpdateUserSettles(call, outcome, "ok"))
                 => /\ Returns(call)
                    /\ last'.result = Success
              /\ Returns(call)
                 => /\ last'.result \in {Success, Failure(LoginFailed)}
                    /\ last'.result = Success
                       => /\ user' # Null
                          /\ user'.email = email
                          /\ \E u \in users :
                                /\ u.email = email
                                /\ AsRegistered(u) \in NewUsers
                                /\ AsRegistered(user') = AsRegistered(u)
                                /\ user'.id = u.id]_vars

\* the account registered with the lower-case roll number is logged in by email
C7_Witness ==
    /\ last.op = "login"
    /\ last.result = Success
    /\ user # Null
    /\ user.email = EmailB
    /\ user.roll_number = <<"r","2">>
    /\ \E r \in registrations : r.user_id = user.id

\* the records that existed before the register call made its own
Existing(call) ==
    { u \in users : ~(Len(call.queries) >= 4 /\ call.queries[4].arg = u.id) }

\* the register calls in flight
Registers == { call \in InFlight : call.op = "register" }

\* the email and the roll number of the register call both collide
BothCollide(call) ==
    /\ \E u \in Existing(call) : u.email = call.args.email
    /\ \E u \in Existing(call) : u.roll_number = call.args.roll_number

\* C8 as claimed: a register whose email and roll number both collide returns
\* DuplicateEmail, and a duplicate result comes with no record created.
C8_DuplicateEmailFirst ==
    [][\A call \in Registers :
          /\ (Returns(call) /\ BothCollide(call))
             => last'.result = Failure(DuplicateEmail)
          /\ (Returns(call)
              /\ last'.result \in {Failure(DuplicateEmail), Failure(DuplicateRollNumber)})
             => UNCHANGED <<users, registrations>>]_vars

\* C8 as amended: a register whose email and roll number both collide never
\* returns DuplicateRollNumber: it returns DuplicateEmail when the email lookup
\* answers, without having looked up the roll number, and the generic failure
\* when that lookup faults; a register that returns either duplicate result
\* has asked for no user record and no registration record, and none is made.
C8_NeverDuplicateRollFirst ==
    [][\A call \in Registers :
          /\ (Returns(call) /\ BothCollide(call))
             => /\ last'.result \in {Failure(DuplicateEmail), Failure(RegisterFailed)}
                /\ Len(call.queries) = 1
                /\ call.queries[1].fn = "getUserByEmail"
          /\ (/\ call.pc = "byEmail"
              /\ BothCollide(call)
              /\ registerByEmailSettles(call, "ok"))
             => /\ Returns(call)
                /\ last'.result = Failure(DuplicateEmail)
          /\ (Returns(call)
              /\ last'.result \in {Failure(DuplicateEmail), Failure(DuplicateRollNumber)})
             => /\ UNCHANGED <<users, registrations>>
                /\ \A i \in 1..Len(call.queries) :
                      call.queries[i].fn \in {"getUserByEmail", "getUserByRollNumber"}]_vars

\* a register was turned down for its email
C8_Witness ==
    /\ last.op = "register"
    /\ last.result = Failure(DuplicateEmail)
    /\ NoCallInFlight

\* C9: right after a logout that follows a successful login the in-memory
\* user is absent and the 'user' record is not stored, and an initialize run
\* by the next process start on that store restores no user session.
C9_LogoutClearsSession ==
    /\ (last.op = "logout" /\ last.afterLogin)
       => (user = Null /\ localStorage.user = Absent)
    /\ (last.op = "mount" /\ last.afterLogout)
       => localStorage.user = Absent
    /\ (last.op = "initialize" /\ last.afterLogout)
       => (isInitialized /\ user = Null /\ localStorage.user = Absent)

\* initialize has run on the store a logout after a successful login left
C9_Witness ==
    /\ last.op = "initialize"
    /\ last.afterLogout
    /\ isInitialized

\* C10: isLoading is false whenever no login, register or adminLogin call is
\* in flight, and every return of such a call, on whatever exit path, and
\* the rejection of a login at the domain check, leave it false.
C10_LoadingOnlyInFlight ==
    /\ NoCallInFlight => ~isLoading
    /\ [][/\ NoCallInFlight' => ~isLoading'
          /\ \A call \in InFlight : Returns(call) => ~isLoading'
          /\ (last' # last /\ last'.op \in {"login", "register", "adminLogin"})
             => ~isLoading']_vars

\* a register call has returned through its catch block
C10_Witness ==
    /\ NoCallInFlight
    /\ last.op = "register"
    /\ last.result = Failure(RegisterFailed)
    /\ ~isLoading

\* the login calls suspended at the last-login update
UpdatingLogins ==
    { call \in InFlight : call.op = "login" /\ call.pc = "updateUser" }

\* C11: once the lookup has found a record, login returns success, sets the
\* in-memory session and stores the mirror, whatever the outcome of the
\* last-login update (success, error result or thrown fault), the store
\* taking the write.
C11_UpdateIsBestEffort ==
    [][\A call \in UpdatingLogins, outcome \in Written :
          loginUpdateUserSettles(call, outcome, "ok")
          => /\ Returns(call)
             /\ last'.result = Success
             /\ user' = authUser(call.userData)
             /\ localStorage'.user = stringify(userMirror(call.userData))]_vars

\* the register calls suspended at the registration-record write
RecordingRegisters ==
    { call \in InFlight : call.op = "register" /\ call.pc = "createRegistration" }

\* C12: once createUser has completed without error, register returns
\* success whatever the outcome of createRegistration (success, error result
\* or thrown fault): a register that created a user record never returns a
\* failure.
C12_CreatedMeansSuccess ==
    [][\A call \in RecordingRegisters :
          /\ \A outcome \in Written :
                registerCreateRegistrationSettles(call, outcome)
                => (Returns(call) /\ last'.result = Success)
          /\ (Returns(call) /\ \E u \in users : u.id = createdId(call))
             => last'.result = Success]_vars

\* C13 as claimed: a session slot goes from absent to present only in a login
\* or register step (adminLogin for the admin slot) and from present to
\* absent only in a logout step (adminLogout for the admin slot); initialize
\* does not change whether a session is present.  (A new process starts with
\* empty memory, which is not counted as an operation.)
C13_OnlyLoginAndLogout ==
    [][/\ (user = Null /\ user' # Null) => last'.op \in {"login", "register"}
       /\ (user # Null /\ user' = Null) => last'.op \in {"logout", "mount"}
       /\ (admin = Null /\ admin' # Null) => last'.op = "adminLogin"
       /\ (admin # Null /\ admin' = Null) => last'.op \in {"adminLogout", "mount"}]_vars

\* the adminLogin calls in flight
AdminLogins == { call \in InFlight : call.op = "adminLogin" }

\* C13 as amended: the in-memory user goes from absent to present only in
\* the last step of a login, as the record the lookup found, or in an
\* initialize that restores a well-formed 'user' record; it goes from present
\* to absent only in a logout step or at a new process start.  The same holds
\* for the admin with adminLogin, the 'admin' record and adminLogout.  No
\* step of register changes whether either session is present.
C13_SessionTransitions ==
    [][/\ (user = Null /\ user' # Null)
          => \/ \E call \in UpdatingLogins :
                   Returns(call) /\ user' = authUser(call.userData)
             \/ /\ ~isInitialized
                /\ last'.op = "initialize"
                /\ WellFormed(localStorage.user)
                /\ user' = restoreUser(parse(localStorage.user))
       /\ (user # Null /\ user' = Null) => last'.op \in {"logout", "mount"}
       /\ (admin = Null /\ admin' # Null)
          => \/ \E call \in AdminLogins :
                   /\ Returns(call)
                   /\ admin' = authenticateAdmin(call.args.username, call.args.password)
             \/ /\ ~isInitialized
                /\ last'.op = "initialize"
                /\ WellFormed(localStorage.admin)
                /\ admin' = parse(localStorage.admin)
       /\ (admin # Null /\ admin' = Null) => last'.op \in {"adminLogout", "mount"}
       /\ \A call \in Registers :
             (Returns(call) \/ \E next \in BagToSet(calls') : Resumes(call, next))
             => /\ (user' = Null) <=> (user = Null)
                /\ (admin' = Null) <=> (admin = Null)]_vars

\* initialize has restored the session of an account that register created
C13_Witness ==
    /\ last.op = "initialize"
    /\ user # Null
    /\ user.email = EmailB
    /\ \E r \in registrations : r.user_id = user.id

\* C14: when authenticateAdmin answers, adminLogin sets the admin session and
\* stores it under 'admin' exactly when the answer is a matching record; with
\* no match it fails with InvalidCredentials and leaves the in-memory admin
\* and the 'admin' record as they were.
C14_AdminLoginOnMatch ==
    [][\A call \in AdminLogins, setItem \in Settled :
          adminLoginSettles(call, "ok", setItem)
          => LET result == authenticateAdmin(call.args.username, call.args.password)
             IN  IF result # Null
                 THEN /\ admin' = result
                      /\ localStorage'.admin = stringify(result)
                 ELSE /\ Returns(call)
                      /\ last'.result = Failure(InvalidCredentials)
                      /\ UNCHANGED <<admin, localStorage>>]_vars

\* the steps of login, register and logout: a call of login or register is
\* started, goes on or returns, or last records a logout
UserSideStep ==
    \/ last' # last /\ last'.op \in {"login", "register", "logout"}
    \/ \E call \in BagToSet(calls) \cup BagToSet(calls') :
          /\ call.op \in {"login", "register"}
          /\ CopiesIn(call, calls') # CopiesIn(call, calls)
          /\ last'.op # "mount"

\* the steps of adminLogin and adminLogout
AdminSideStep ==
    \/ last' # last /\ last'.op \in {"adminLogin", "adminLogout"}
    \/ \E call \in BagToSet(calls) \cup BagToSet(calls') :
          /\ call.op = "adminLogin"
          /\ CopiesIn(call, calls') # CopiesIn(call, calls)
          /\ last'.op # "mount"

\* C15: the steps of login, register and logout leave the in-memory admin and
\* the 'admin' record unchanged, and the steps of adminLogin and adminLogout
\* leave the in-memory user and the 'user' record unchanged; a change of the
\* user slot comes from login, logout, initialize or a new process start
\* only, and a change of the admin slot from adminLogin, adminLogout,
\* initialize or a new process start only.
C15_SessionsIndependent ==
    [][/\ UserSideStep => (admin' = admin /\ localStorage'.admin = localStorage.admin)
       /\ AdminSideStep => (user' = user /\ localStorage'.user = localStorage.user)
       /\ (user' # user \/ localStorage'.user # localStorage.user)
          => last'.op \in {"login", "logout", "initialize", "mount"}
       /\ (admin' # admin \/ localStorage'.admin # localStorage.admin)
          => last'.op \in {"adminLogin", "adminLogout", "initialize", "mount"}]_vars

\* an admin has logged out and left the user session that a login set
C15_Witness ==
    /\ last.op = "adminLogout"
    /\ user # Null
    /\ localStorage.user # Absent
    /\ admin = Null
    /\ localStorage.admin = Absent
    /\ Cardinality(users) > 1

\* C16: in every state where a login, register or adminLogin call has started
\* and not yet returned, isLoading is true, also when calls overlap and one
\* of them returns first.
C16_LoadingWhileInFlight ==
    ~NoCallInFlight => isLoading

\* the login calls in flight
Logins == { call \in InFlight : call.op = "login" }

\* C17: a login that returns a failure (InvalidDomain, NotFound, or
\* LoginFailed after a caught fault of the lookup, of the last-login update or
\* of the stored write) leaves the in-memory user and the 'user' record as
\* they were: no step of the call changes them.
C17_FailedLoginChangesNothing ==
    [][/\ \A call \in Logins :
             (Returns(call) /\ last'.result # Success)
             => (user' = user /\ localStorage'.user = localStorage.user)
       /\ \A call \in Logins :
             (\E next \in BagToSet(calls') : Resumes(call, next))
             => (user' = user /\ localStorage'.user = localStorage.user)
       /\ (last' # last /\ last'.op = "login" /\ last'.result = Failure(InvalidDomain))
          => (user' = user /\ localStorage'.user = localStorage.user)]_vars

\* C18: the record a successful login stores is one from which initialize
\* restores the session that login set, field by field, also when fields are
\* empty; and the record a successful adminLogin stores is one from which
\* initialize restores the admin that adminLogin set.
C18_PersistRestoreRoundTrip ==
    [][/\ \A call \in UpdatingLogins :
             (Returns(call) /\ last'.result = Success)
             => /\ WellFormed(localStorage'.user)
                /\ restoreUser(parse(localStorage'.user)) = user'
       /\ \A call \in AdminLogins :
             (Returns(call) /\ last'.result = Success)
             => /\ WellFormed(localStorage'.admin)
                /\ parse(localStorage'.admin) = admin']_vars

\* C19: a login call that was in flight when logout ran does not set the
\* session again: when it returns, the in-memory user and the 'user' record
\* are absent.
C19_LogoutBeatsLoginInFlight ==
    [][\A call \in Logins :
          (Returns(call) /\ last.op = "logout" /\ last.duringLogin)
          => (user' = Null /\ localStorage'.user = Absent)]_vars

\* identifier is the roll number, as it was given, of an account that a
\* register call created and returned success for
RegisteredRollNumber(identifier) ==
    /\ ~includes(identifier, "@")
    /\ \E u \in users :
          /\ u.roll_number = identifier
          /\ AsRegistered(u) \in NewUsers
          /\ \E r \in registrations : r.user_id = u.id

\* C20: a login whose identifier is the roll number of a registered account,
\* written as it was registered, finds that account when the lookup answers
\* and is never turned down with NotFound, also when the roll number has
\* lower-case letters.
C20_RegisteredRollNumberLogsIn ==
    [][\A call \in Logins :
          RegisteredRollNumber(call.args.emailOrRoll)
          => /\ (call.pc = "getUser" /\ loginGetUserSettles(call, "ok"))
                => \E next \in BagToSet(calls') :
                      /\ Resumes(call, next)
                      /\ next.pc = "updateUser"
                      /\ next.userData.roll_number = call.args.emailOrRoll
             /\ Returns(call) => last'.result # Failure(NotFound)]_vars

====
